---- MODULE Spec2Model ----
(***************************************************************************)
(* A model of the photo360 client: construction, the text setters and the  *)
(* three-stage Execute pipeline (fetch page, submit form, create image).   *)
(* Strings are TLA+ strings; the string functions of the Go library that   *)
(* the code relies on (strings.Contains, strings.TrimSpace, strings.Join,  *)
(* fmt.Sprintf) are computed character by character.                       *)
(***************************************************************************)
EXTENDS Integers, Sequences, FiniteSets, Bags, TLC

VARIABLES
    ctor,        \* "uncalled", "ok" or "failed": outcome of NewPhoto360
    ctorArg,     \* the effectPageURL argument NewPhoto360 was called with
    ctorErr,     \* the error NewPhoto360 returned ("" for nil)
    p,           \* the Photo360 struct: EffectPageURL, InputText, FormData
    pc,          \* position of the Execute call
    cookies,     \* Execute's local: cookie string returned by fetchInitialPage
    generatedFormValue, \* Execute's local: value returned by submitFormData
    imageCreationData,  \* createImage's local: the decoded FormDataValues
    body,        \* the response body the stage in progress last read
    requests,    \* HTTP requests issued by the Execute call, in order
    result,      \* the *Photo360Result Execute returned (ok = FALSE for nil)
    err,         \* the error Execute returned ("" for nil)
    lastOp,      \* the text setter called last, with its argument
    clients,     \* concurrent callers: the Photo360 structs they call, by id
    calls        \* concurrent callers: each goroutine's Execute call

vars == <<ctor, ctorArg, ctorErr, p, pc, cookies, generatedFormValue,
          imageCreationData, body, requests, result, err, lastOp, clients, calls>>

-----------------------------------------------------------------------------
(* Bounds of the model.                                                    *)

MaxTexts == 2
MaxOptions == 2

-----------------------------------------------------------------------------
(* String functions.                                                       *)

Char(s, i) == SubSeq(s, i, i)

\* strings.Contains(s, substr)
Contains(s, substr) ==
    \E i \in 1..(Len(s) - Len(substr) + 1) :
        SubSeq(s, i, i + Len(substr) - 1) = substr

IsSpace(c) == c \in {" ", "\t", "\n", "\r"}

\* strings.TrimSpace(s)
RECURSIVE TrimLeft(_)
TrimLeft(s) ==
    IF Len(s) > 0 /\ IsSpace(Char(s, 1)) THEN TrimLeft(Tail(s)) ELSE s

RECURSIVE TrimRight(_)
TrimRight(s) ==
    IF Len(s) > 0 /\ IsSpace(Char(s, Len(s)))
    THEN TrimRight(SubSeq(s, 1, Len(s) - 1)) ELSE s

TrimSpace(s) == TrimRight(TrimLeft(s))

\* strings.Join(elems, sep)
RECURSIVE Join(_, _)
Join(elems, sep) ==
    IF Len(elems) = 0 THEN ""
    ELSE IF Len(elems) = 1 THEN elems[1]
    ELSE elems[1] \o sep \o Join(Tail(elems), sep)

\* position of the first occurrence of substr in s, 0 when there is none
RECURSIVE IndexFrom(_, _, _)
IndexFrom(s, substr, i) ==
    IF i + Len(substr) - 1 > Len(s) THEN 0
    ELSE IF SubSeq(s, i, i + Len(substr) - 1) = substr THEN i
    ELSE IndexFrom(s, substr, i + 1)

IndexOf(s, substr) == IndexFrom(s, substr, 1)


IsDigit(c) == c \in {"0", "1", "2", "3", "4", "5", "6", "7", "8", "9"}

IsHex(c) == IsDigit(c) \/ c \in {"a", "b", "c", "d", "e", "f",
                                 "A", "B", "C", "D", "E", "F"}

DigitVal(c) == IndexOf("0123456789", c) - 1

DigitStr(d) == Char("0123456789", d + 1)

\* decimal digits of a natural number: fmt's %d for n >= 0
RECURSIVE NatStr(_)
NatStr(n) == IF n < 10 THEN DigitStr(n) ELSE NatStr(n \div 10) \o DigitStr(n % 10)

\* value of a string of digits
RECURSIVE DigitsVal(_)
DigitsVal(s) ==
    IF Len(s) = 0 THEN 0
    ELSE 10 * DigitsVal(SubSeq(s, 1, Len(s) - 1)) + DigitVal(Char(s, Len(s)))

\* strconv.Atoi(s): ok is FALSE when Atoi returns an error
Atoi(s) ==
    LET signed == Len(s) > 0 /\ Char(s, 1) \in {"+", "-"}
        digits == IF signed THEN SubSeq(s, 2, Len(s)) ELSE s
        ok     == Len(digits) > 0 /\ \A i \in 1..Len(digits) : IsDigit(Char(digits, i))
    IN  [ok |-> ok,
         n  |-> IF ~ok THEN 0
                ELSE IF signed /\ Char(s, 1) = "-" THEN 0 - DigitsVal(digits)
                ELSE DigitsVal(digits)]

-----------------------------------------------------------------------------
(* net/url and net/http, as far as the client depends on them.             *)

\* url.Parse fails on a percent sign that does not start a hex escape
URLParseFails(u) ==
    \E i \in 1..Len(u) :
        /\ Char(u, i) = "%"
        /\ ~(i + 2 <= Len(u) /\ IsHex(Char(u, i + 1)) /\ IsHex(Char(u, i + 2)))

\* parsedURL.Scheme
SchemeOf(u) ==
    LET i == IndexOf(u, "://") IN IF i = 0 THEN "" ELSE SubSeq(u, 1, i - 1)

\* parsedURL.Host
HostOf(u) ==
    LET i == IndexOf(u, "://")
    IN  IF i = 0 THEN ""
        ELSE LET rest == SubSeq(u, i + 3, Len(u))
                 j    == IndexOf(rest, "/")
             IN  IF j = 0 THEN rest ELSE SubSeq(rest, 1, j - 1)

\* fmt.Sprintf("%s://%s", parsedURL.Scheme, parsedURL.Host)
OriginOf(u) == SchemeOf(u) \o "://" \o HostOf(u)

\* http.Client.Do only speaks http and https
SupportedScheme(u) == SchemeOf(u) \in {"http", "https"}

-----------------------------------------------------------------------------
(* The client: construction and the text setters.                          *)

DomainMarker == "photo360.com"

DefaultURL == "https://en.ephoto360.com/handwritten-text-on-foggy-glass-online-680.html"

ErrInvalidURL == "invalid URL: Must be a photo360.com URL"

EmptyFormData == [k \in {} |-> ""]

\* the value of *Photo360 while NewPhoto360 has returned no client
NilClient == [EffectPageURL |-> "", InputText |-> <<>>, FormData |-> EmptyFormData]

\* NewPhoto360 validating the argument before the default is substituted
NewPhoto360ResultNoDefault(effectPageURL) ==
    IF ~Contains(effectPageURL, DomainMarker)
    THEN [ok |-> FALSE, client |-> NilClient, err |-> ErrInvalidURL]
    ELSE [ok |-> TRUE,
          client |-> [EffectPageURL |-> effectPageURL,
                      InputText     |-> <<"Faris">>,
                      FormData      |-> EmptyFormData],
          err |-> ""]

\* NewPhoto360 leaving InputText without its seed value
NewPhoto360ResultNoSeed(effectPageURL) ==
    LET url == IF effectPageURL = "" THEN DefaultURL ELSE effectPageURL
    IN  IF ~Contains(url, DomainMarker)
        THEN [ok |-> FALSE, client |-> NilClient, err |-> ErrInvalidURL]
        ELSE [ok |-> TRUE,
              client |-> [EffectPageURL |-> url,
                          InputText     |-> <<>>,
                          FormData      |-> EmptyFormData],
              err |-> ""]

\* NewPhoto360(effectPageURL): the returned client and error
NewPhoto360Result(effectPageURL) ==
    LET url == IF effectPageURL = "" THEN DefaultURL ELSE effectPageURL
    IN  IF ~Contains(url, DomainMarker)
        THEN [ok |-> FALSE, client |-> NilClient, err |-> ErrInvalidURL]
        ELSE [ok |-> TRUE,
              client |-> [EffectPageURL |-> url,
                          InputText     |-> <<"Faris">>,
                          FormData      |-> EmptyFormData],
              err |-> ""]

\* URLs handed to NewPhoto360: a prefix, the marker or a near miss, a suffix
URLPrefixes == {"", "www.e"}
URLMiddles == {"photo360.com", "photo360.comm", "photo360.co", "hoto360.com",
               "photo360,com", "Photo360.com", "photo360 .com", ""}
URLSuffixes == {"", "/%zz"}
URLInputs ==
    {pre \o mid \o suf : pre \in URLPrefixes, mid \in URLMiddles, suf \in URLSuffixes}
    \cup {DefaultURL, "https://example.com/test"}

TextInputs == {"X", "Y"}

RECURSIVE SeqsUpTo(_, _)
SeqsUpTo(S, n) ==
    IF n = 0 THEN {<<>>}
    ELSE LET shorter == SeqsUpTo(S, n - 1)
         IN  shorter \cup {Append(s, x) : s \in {t \in shorter : Len(t) = n - 1}, x \in S}

NameLists == SeqsUpTo(TextInputs, MaxTexts)

NoResult == [ok |-> FALSE, Status |-> FALSE, ImageURL |-> "", SessionID |-> ""]

NoFormDataValues ==
    [ID |-> "", Token |-> "", BuildServer |-> "", BuildServerID |-> "",
     Radio |-> "", Text |-> <<>>]

NoBody == [kind |-> "none"]

NoOp == [op |-> "none", name |-> "", names |-> <<>>]

\* one caller: nothing has been called yet
OneCaller ==
    /\ ctor = "uncalled"
    /\ ctorArg = ""
    /\ ctorErr = ""
    /\ p = NilClient
    /\ pc = "Idle"
    /\ cookies = ""
    /\ generatedFormValue = ""
    /\ imageCreationData = NoFormDataValues
    /\ body = NoBody
    /\ requests = <<>>
    /\ result = NoResult
    /\ err = ""
    /\ lastOp = NoOp

\* the client is called from one goroutine; there are no concurrent callers
Init ==
    /\ OneCaller
    /\ clients = <<>>
    /\ calls = <<>>

pipelineVars == <<pc, cookies, generatedFormValue, imageCreationData, body,
                  requests, result, err>>

\* no Execute call is in progress: the caller may call the client
AtRest == pc = "Idle"

NewPhoto360(effectPageURL) ==
    /\ ctor = "uncalled"
    /\ LET r == NewPhoto360Result(effectPageURL)
       IN  /\ ctor' = IF r.ok THEN "ok" ELSE "failed"
           /\ ctorErr' = r.err
           /\ p' = r.client
    /\ ctorArg' = effectPageURL
    /\ UNCHANGED lastOp
    /\ UNCHANGED pipelineVars
    /\ UNCHANGED <<clients, calls>>

\* SetName appending to the list instead of replacing it
SetNameAppend(name) ==
    /\ ctor = "ok"
    /\ pc = "Idle"
    /\ p' = [p EXCEPT !.InputText = Append(p.InputText, name)]
    /\ lastOp' = [op |-> "SetName", name |-> name, names |-> <<>>]
    /\ UNCHANGED <<ctor, ctorArg, ctorErr, pc, cookies, generatedFormValue,
                   imageCreationData, body, requests, result, err>>
    /\ UNCHANGED <<clients, calls>>

SetName(name) ==
    /\ ctor = "ok"
    /\ AtRest
    /\ p' = [p EXCEPT !.InputText = <<name>>]
    /\ lastOp' = [op |-> "SetName", name |-> name, names |-> <<>>]
    /\ UNCHANGED <<ctor, ctorArg, ctorErr>>
    /\ UNCHANGED pipelineVars
    /\ UNCHANGED <<clients, calls>>

\* SetNames keeping only the first of the names
SetNamesFirstOnly(names) ==
    /\ ctor = "ok"
    /\ pc = "Idle"
    /\ p' = [p EXCEPT !.InputText = IF Len(names) > 1 THEN <<names[1]>> ELSE names]
    /\ lastOp' = [op |-> "SetNames", name |-> "", names |-> names]
    /\ UNCHANGED <<ctor, ctorArg, ctorErr, pc, cookies, generatedFormValue,
                   imageCreationData, body, requests, result, err>>
    /\ UNCHANGED <<clients, calls>>

SetNames(names) ==
    /\ ctor = "ok"
    /\ AtRest
    /\ p' = [p EXCEPT !.InputText = names]
    /\ lastOp' = [op |-> "SetNames", name |-> "", names |-> names]
    /\ UNCHANGED <<ctor, ctorArg, ctorErr>>
    /\ UNCHANGED pipelineVars
    /\ UNCHANGED <<clients, calls>>

-----------------------------------------------------------------------------
(* Stage 1: fetchInitialPage and prepareFormData.                          *)

\* signed decimal digits of an integer: fmt's %d and %v of an int
IntStr(n) == IF n < 0 THEN "-" \o NatStr(0 - n) ELSE NatStr(n)

ErrEntropy == "unexpected EOF"

\* secureRandomInt(max): any n in [0, max), or the error of the entropy source
SecureRandomInt(max) ==
    {[ok |-> TRUE, n |-> i, err |-> ""] : i \in 0..(max - 1)}
    \cup {[ok |-> FALSE, n |-> 0, err |-> ErrEntropy]}

\* the outcomes secureRandomInt can have inside prepareFormData; it is only
\* called when there are options
RandomOutcomes(radioOptions) ==
    IF Len(radioOptions) > 0 THEN SecureRandomInt(Len(radioOptions))
    ELSE {[ok |-> TRUE, n |-> 0, err |-> ""]}

\* prepareFormData storing an id for every non-empty id text
prepareFormDataAnyId(buildServer, buildServerId, token, submitValue, radioOptions, rnd) ==
    LET id      == Atoi(buildServerId)
        withId  == buildServerId # ""
        withOpt == Len(radioOptions) > 0
        keys    == {"submit", "token", "build_server"}
                   \cup (IF withId THEN {"build_server_id"} ELSE {})
                   \cup (IF withOpt THEN {"radio0[radio]"} ELSE {})
    IN  IF withOpt /\ ~rnd.ok
        THEN [ok |-> FALSE, formData |-> EmptyFormData,
              err |-> "failed to generate secure random number: " \o rnd.err]
        ELSE [ok |-> TRUE,
              formData |-> [k \in keys |->
                  CASE k = "submit" -> submitValue
                    [] k = "token" -> token
                    [] k = "build_server" -> buildServer
                    [] k = "build_server_id" -> id.n
                    [] OTHER -> radioOptions[rnd.n + 1]],
              err |-> ""]

\* prepareFormData, given what secureRandomInt returns
prepareFormData(buildServer, buildServerId, token, submitValue, radioOptions, rnd) ==
    LET id      == Atoi(buildServerId)
        withId  == buildServerId # "" /\ id.ok
        withOpt == Len(radioOptions) > 0
        keys    == {"submit", "token", "build_server"}
                   \cup (IF withId THEN {"build_server_id"} ELSE {})
                   \cup (IF withOpt THEN {"radio0[radio]"} ELSE {})
    IN  IF withOpt /\ ~rnd.ok
        THEN [ok |-> FALSE, formData |-> EmptyFormData,
              err |-> "failed to generate secure random number: " \o rnd.err]
        ELSE [ok |-> TRUE,
              formData |-> [k \in keys |->
                  CASE k = "submit" -> submitValue
                    [] k = "token" -> token
                    [] k = "build_server" -> buildServer
                    [] k = "build_server_id" -> id.n
                    [] OTHER -> radioOptions[rnd.n + 1]],
              err |-> ""]

BuildServerIds == {"", "7", "7x"}
RadioValues == {"r1", "r2"}
RadioOptionLists == SeqsUpTo(RadioValues, MaxOptions)

\* what the markup of the effect page holds at the places fetchInitialPage
\* looks at; a missing element or attribute reads as ""
Page(bs, id, tok, sub, opts) ==
    [buildServer |-> bs, buildServerId |-> id, token |-> tok,
     submitValue |-> sub, radioOptions |-> opts]

Pages ==
    {Page("https://e2.yotools.net", "7", "tokA", "GO", opts) : opts \in RadioOptionLists}
    \cup {Page("https://e2.yotools.net", id, "tokA", "GO", <<>>) : id \in BuildServerIds}
    \cup {Page("", "", "", "", <<>>), Page("", "-3", "tokA", "", <<"r1">>)}

\* resp.Cookies(), each rendered by cookie.String()
CookieLists == {<<"sid=1">>, <<"sid=2", "t=9">>}

TransportErrors == {"connection refused", "Client.Timeout exceeded while awaiting headers"}

ErrRead == "unexpected EOF"

Request(kind, method, url, cookie, fields, texts) ==
    [kind |-> kind, method |-> method, url |-> url, cookie |-> cookie,
     fields |-> fields, texts |-> texts]

\* Execute is called: fetchInitialPage builds the GET request and sends it
ExecuteCall ==
    /\ ctor = "ok"
    /\ AtRest
    /\ IF URLParseFails(p.EffectPageURL)
       THEN /\ pc' = "Failed"
            /\ err' = "parse \"" \o p.EffectPageURL \o "\": invalid URL escape"
            /\ UNCHANGED requests
       ELSE /\ pc' = "FetchingPage"
            /\ err' = ""
            /\ requests' = <<Request("fetch", "GET", p.EffectPageURL, "",
                                     EmptyFormData, <<>>)>>
    /\ UNCHANGED <<ctor, ctorArg, ctorErr, p, cookies, generatedFormValue,
                   imageCreationData, body, result, lastOp>>
    /\ UNCHANGED <<clients, calls>>

\* Execute going on to the submit stage although the GET failed
FetchTransportErrorIgnored(e) ==
    /\ pc = "FetchingPage"
    /\ pc' = "Fetched"
    /\ err' = "Get \"" \o p.EffectPageURL \o "\": " \o e
    /\ UNCHANGED <<ctor, ctorArg, ctorErr, p, cookies, generatedFormValue,
                   imageCreationData, body, requests, result, lastOp>>
    /\ UNCHANGED <<clients, calls>>

\* client.Do of the GET fails
FetchTransportError(e) ==
    /\ pc = "FetchingPage"
    /\ pc' = "Failed"
    /\ err' = "Get \"" \o p.EffectPageURL \o "\": " \o e
    /\ UNCHANGED <<ctor, ctorArg, ctorErr, p, cookies, generatedFormValue,
                   imageCreationData, body, requests, result, lastOp>>
    /\ UNCHANGED <<clients, calls>>

\* the GET is answered but the body cannot be read into a document
FetchParseError ==
    /\ pc = "FetchingPage"
    /\ SupportedScheme(p.EffectPageURL)
    /\ pc' = "Failed"
    /\ err' = ErrRead
    /\ UNCHANGED <<ctor, ctorArg, ctorErr, p, cookies, generatedFormValue,
                   imageCreationData, body, requests, result, lastOp>>
    /\ UNCHANGED <<clients, calls>>

\* the response to the GET: its cookies and its markup
PageBody(cs, pg) == [kind |-> "page", cookies |-> cs, page |-> pg]

\* fetchInitialPage adding the new fields to the map already there
FetchResponseMerging(cs, pg, rnd) ==
    /\ pc = "FetchingPage"
    /\ SupportedScheme(p.EffectPageURL)
    /\ LET cookieString == Join(cs, "; ")
           fd == prepareFormData(pg.buildServer, pg.buildServerId, pg.token,
                                 pg.submitValue, pg.radioOptions, rnd)
       IN  IF ~fd.ok
           THEN /\ pc' = "Failed"
                /\ err' = "failed to prepare form data: " \o fd.err
                /\ UNCHANGED <<p, cookies>>
           ELSE /\ pc' = "Fetched"
                /\ p' = [p EXCEPT !.FormData =
                             [k \in DOMAIN fd.formData \cup DOMAIN p.FormData |->
                                 IF k \in DOMAIN fd.formData THEN fd.formData[k]
                                 ELSE p.FormData[k]]]
                /\ cookies' = cookieString
                /\ UNCHANGED err
    /\ body' = PageBody(cs, pg)
    /\ UNCHANGED <<ctor, ctorArg, ctorErr, generatedFormValue,
                   imageCreationData, requests, result, lastOp>>
    /\ UNCHANGED <<clients, calls>>

\* the GET is answered with cookies cs and page pg; rnd is what
\* secureRandomInt returns
FetchResponse(cs, pg, rnd) ==
    /\ pc = "FetchingPage"
    /\ SupportedScheme(p.EffectPageURL)
    /\ LET cookieString == Join(cs, "; ")
           fd == prepareFormData(pg.buildServer, pg.buildServerId, pg.token,
                                 pg.submitValue, pg.radioOptions, rnd)
       IN  IF ~fd.ok
           THEN /\ pc' = "Failed"
                /\ err' = "failed to prepare form data: " \o fd.err
                /\ UNCHANGED <<p, cookies>>
           ELSE /\ pc' = "Fetched"
                /\ p' = [p EXCEPT !.FormData = fd.formData]
                /\ cookies' = cookieString
                /\ UNCHANGED err
    /\ body' = PageBody(cs, pg)
    /\ UNCHANGED <<ctor, ctorArg, ctorErr, generatedFormValue,
                   imageCreationData, requests, result, lastOp>>
    /\ UNCHANGED <<clients, calls>>

-----------------------------------------------------------------------------
(* Stage 2: submitFormData and extractGeneratedFormValue.                  *)

ErrNoFormValue == "no generated form value found"

\* JSON texts the site may embed as the generated form value
DocGood == "{\"id\":\"680\",\"token\":\"t1\",\"build_server\":\"https://e1.yotools.net\",\"build_server_id\":\"1\",\"radio0\":{\"radio\":\"r1\"},\"text\":[\"X\"]}"
DocGoodTwo == "{\"id\":\"681\",\"token\":\"t2\",\"build_server\":\"https://e2.yotools.net\",\"build_server_id\":\"2\",\"text\":[\"X\",\"Y\"]}"
DocNull == "null"
DocTextIsString == "{\"id\":\"680\",\"text\":\"X\"}"
DocGarbage == "Sorry, this effect needs 1 text"

NoAttr == [exists |-> FALSE, val |-> ""]
Attr(v) == [exists |-> TRUE, val |-> v]

\* the submit response as extractGeneratedFormValue sees it: the text content
\* and the value attribute of #form_value and of #form_value_input (an absent
\* element has text "" and no attribute)
\* and the cookies the submit response sets, which the client does not read
SubmitCookieLists == {<<"sid=3">>}

SubmitBodies ==
    [kind : {"html"}, cookies : SubmitCookieLists,
     fvText  : {"", " \n", " " \o DocGood \o "\n"},
     fviText : {"", DocGarbage, DocNull},
     fvAttr  : {NoAttr, Attr(""), Attr(DocGoodTwo), Attr(" ")},
     fviAttr : {NoAttr, Attr(""), Attr(DocTextIsString)}]

\* extractGeneratedFormValue(responseData)
extractGeneratedFormValue(b) ==
    LET t1 == TrimSpace(b.fvText)
        t2 == IF t1 = "" THEN TrimSpace(b.fviText) ELSE t1
    IN  IF t2 # "" THEN t2
        ELSE IF b.fvAttr.exists THEN b.fvAttr.val
        ELSE IF b.fviAttr.exists THEN b.fviAttr.val
        ELSE ""

\* fmt.Sprintf("%v", value) of each form field submitFormData writes
FormFieldStrings(formData) ==
    [k \in DOMAIN formData |->
        IF k = "build_server_id" THEN IntStr(formData[k]) ELSE formData[k]]

\* every form field written twice
MultipartFieldsTwice(formData) ==
    LET parts == SetToBag({<<k, FormFieldStrings(formData)[k]>> : k \in DOMAIN formData})
    IN  parts (+) parts

\* the parts the loop over p.FormData writes, as a bag of <<name, value>>:
\* one WriteField per map entry, in the order the map iteration happens to take
MultipartFields(formData) ==
    SetToBag({<<k, FormFieldStrings(formData)[k]>> : k \in DOMAIN formData})

\* submitFormData writes the multipart body and sends the POST
StartSubmit ==
    /\ pc = "Fetched"
    /\ pc' = "Submitting"
    /\ requests' = Append(requests,
           Request("submit", "POST", p.EffectPageURL, cookies,
                   MultipartFields(p.FormData), p.InputText))
    /\ UNCHANGED <<ctor, ctorArg, ctorErr, p, cookies, generatedFormValue,
                   imageCreationData, body, result, err, lastOp>>
    /\ UNCHANGED <<clients, calls>>

\* a failed submit POST sending the call back to send it again
SubmitTransportErrorRetry(e) ==
    /\ pc = "Submitting"
    /\ pc' = "Fetched"
    /\ requests' = SubSeq(requests, 1, 1)
    /\ UNCHANGED <<ctor, ctorArg, ctorErr, p, cookies, generatedFormValue,
                   imageCreationData, body, result, err, lastOp>>
    /\ UNCHANGED <<clients, calls>>

\* client.Do of the submit POST fails, or its body cannot be read
SubmitTransportError(e) ==
    /\ pc = "Submitting"
    /\ pc' = "Failed"
    /\ err' = IF e = ErrRead THEN e
              ELSE "Post \"" \o p.EffectPageURL \o "\": " \o e
    /\ UNCHANGED <<ctor, ctorArg, ctorErr, p, cookies, generatedFormValue,
                   imageCreationData, body, requests, result, lastOp>>
    /\ UNCHANGED <<clients, calls>>

\* the submit POST is answered with body b
SubmitResponse(b) ==
    /\ pc = "Submitting"
    /\ body' = b
    /\ LET v == extractGeneratedFormValue(b)
       IN  IF v = ""
           THEN /\ pc' = "Failed"
                /\ err' = ErrNoFormValue
                /\ UNCHANGED generatedFormValue
           ELSE /\ pc' = "Submitted"
                /\ generatedFormValue' = v
                /\ UNCHANGED err
    /\ UNCHANGED <<ctor, ctorArg, ctorErr, p, cookies, imageCreationData,
                   requests, result, lastOp>>
    /\ UNCHANGED <<clients, calls>>

-----------------------------------------------------------------------------
(* encoding/json, as far as createImage depends on it. A JSON value is a   *)
(* record with its type t and its value v; a number keeps the parts of its *)
(* literal: sign, integer part and first fractional digit.                 *)

JString(x) == [t |-> "string", v |-> x]
JArray(xs) == [t |-> "array", v |-> xs]
JObject(f) == [t |-> "object", v |-> f]
JBool(b)   == [t |-> "bool", v |-> b]
JNull      == [t |-> "null", v |-> ""]
JNumber(neg, int, frac) == [t |-> "number", v |-> [neg |-> neg, int |-> int, frac |-> frac]]
JSyntaxError == [t |-> "syntax error", v |-> ""]

\* the value a JSON text stands for (JSON allows white space around it);
\* every text that is not one of the documents above is not JSON
ParseJSON(text) ==
    LET s == TrimSpace(text)
    IN  CASE s = DocGood ->
                JObject([k \in {"id", "token", "build_server", "build_server_id",
                                "radio0", "text"} |->
                    CASE k = "id" -> JString("680")
                      [] k = "token" -> JString("t1")
                      [] k = "build_server" -> JString("https://e1.yotools.net")
                      [] k = "build_server_id" -> JString("1")
                      [] k = "radio0" -> JObject([r \in {"radio"} |-> JString("r1")])
                      [] OTHER -> JArray(<<JString("X")>>)])
          [] s = DocGoodTwo ->
                JObject([k \in {"id", "token", "build_server", "build_server_id",
                                "text"} |->
                    CASE k = "id" -> JString("681")
                      [] k = "token" -> JString("t2")
                      [] k = "build_server" -> JString("https://e2.yotools.net")
                      [] k = "build_server_id" -> JString("2")
                      [] OTHER -> JArray(<<JString("X"), JString("Y")>>)])
          [] s = DocNull -> JNull
          [] s = DocTextIsString ->
                JObject([k \in {"id", "text"} |->
                    IF k = "id" THEN JString("680") ELSE JString("X")])
          [] OTHER -> JSyntaxError

\* decoding member key of object obj into a Go string field: a missing member
\* or null leaves "", any other non-string is a type error
StringField(obj, key) ==
    IF key \notin DOMAIN obj THEN [ok |-> TRUE, val |-> ""]
    ELSE IF obj[key].t = "string" THEN [ok |-> TRUE, val |-> obj[key].v]
    ELSE IF obj[key].t = "null" THEN [ok |-> TRUE, val |-> ""]
    ELSE [ok |-> FALSE, val |-> ""]

\* decoding member key into a Go bool field
BoolField(obj, key) ==
    IF key \notin DOMAIN obj THEN [ok |-> TRUE, val |-> FALSE]
    ELSE IF obj[key].t = "bool" THEN [ok |-> TRUE, val |-> obj[key].v]
    ELSE IF obj[key].t = "null" THEN [ok |-> TRUE, val |-> FALSE]
    ELSE [ok |-> FALSE, val |-> FALSE]

\* decoding member key into a Go []string field
StringsField(obj, key) ==
    IF key \notin DOMAIN obj THEN [ok |-> TRUE, val |-> <<>>]
    ELSE IF obj[key].t = "null" THEN [ok |-> TRUE, val |-> <<>>]
    ELSE IF obj[key].t = "array"
    THEN LET xs == obj[key].v
         IN  [ok  |-> \A i \in 1..Len(xs) : xs[i].t \in {"string", "null"},
              val |-> [i \in 1..Len(xs) |->
                          IF xs[i].t = "string" THEN xs[i].v ELSE ""]]
    ELSE [ok |-> FALSE, val |-> <<>>]

\* decoding member radio0 into the nested struct with the string field radio
RadioField(obj) ==
    IF "radio0" \notin DOMAIN obj THEN [ok |-> TRUE, val |-> ""]
    ELSE IF obj["radio0"].t = "null" THEN [ok |-> TRUE, val |-> ""]
    ELSE IF obj["radio0"].t = "object" THEN StringField(obj["radio0"].v, "radio")
    ELSE [ok |-> FALSE, val |-> ""]

ErrJSONSyntax == "invalid character looking for beginning of value"
ErrJSONType == "json: cannot unmarshal value into Go struct field"

\* json.Unmarshal([]byte(text), &imageCreationData) for a FormDataValues
UnmarshalFormDataValues(text) ==
    LET j == ParseJSON(text)
    IN  IF j.t = "syntax error"
        THEN [ok |-> FALSE, data |-> NoFormDataValues, err |-> ErrJSONSyntax]
        ELSE IF j.t = "null"
        THEN [ok |-> TRUE, data |-> NoFormDataValues, err |-> ""]
        ELSE IF j.t # "object"
        THEN [ok |-> FALSE, data |-> NoFormDataValues, err |-> ErrJSONType]
        ELSE LET id   == StringField(j.v, "id")
                 tok  == StringField(j.v, "token")
                 bs   == StringField(j.v, "build_server")
                 bsid == StringField(j.v, "build_server_id")
                 rad  == RadioField(j.v)
                 txt  == StringsField(j.v, "text")
                 ok   == id.ok /\ tok.ok /\ bs.ok /\ bsid.ok /\ rad.ok /\ txt.ok
             IN  [ok |-> ok,
                  data |-> [ID |-> id.val, Token |-> tok.val,
                            BuildServer |-> bs.val, BuildServerID |-> bsid.val,
                            Radio |-> rad.val, Text |-> txt.val],
                  err |-> IF ok THEN "" ELSE ErrJSONType]

-----------------------------------------------------------------------------
(* Stage 3: createImage.                                                   *)

ErrSingleInput == "please try using a URL that requires 1 input field"

\* the url.Values createImage posts
CreateFormFields(data) ==
    [k \in {"id", "token", "build_server", "build_server_id"}
           \cup (IF data.Radio # "" THEN {"radio0[radio]"} ELSE {}) |->
        CASE k = "id" -> data.ID
          [] k = "token" -> data.Token
          [] k = "build_server" -> data.BuildServer
          [] k = "build_server_id" -> data.BuildServerID
          [] OTHER -> data.Radio]

\* createImage returning the decoder's error as it is
StartCreateImageDecoderError ==
    /\ pc = "Submitted"
    /\ body' = NoBody
    /\ LET d == UnmarshalFormDataValues(generatedFormValue)
       IN  IF ~d.ok
           THEN /\ pc' = "Failed"
                /\ err' = d.err
                /\ UNCHANGED <<imageCreationData, requests>>
           ELSE /\ pc' = "CreatingImage"
                /\ imageCreationData' = d.data
                /\ requests' = Append(requests,
                       Request("create", "POST",
                               OriginOf(p.EffectPageURL) \o "/effect/create-image",
                               cookies, CreateFormFields(d.data), d.data.Text))
                /\ UNCHANGED err
    /\ UNCHANGED <<ctor, ctorArg, ctorErr, p, cookies, generatedFormValue,
                   result, lastOp>>
    /\ UNCHANGED <<clients, calls>>

\* createImage sending the cookies of the submit response
StartCreateImageSubmitCookies ==
    /\ pc = "Submitted"
    /\ body' = NoBody
    /\ LET d == UnmarshalFormDataValues(generatedFormValue)
       IN  IF ~d.ok
           THEN /\ pc' = "Failed"
                /\ err' = ErrSingleInput
                /\ UNCHANGED <<imageCreationData, requests>>
           ELSE /\ pc' = "CreatingImage"
                /\ imageCreationData' = d.data
                /\ requests' = Append(requests,
                       Request("create", "POST",
                               OriginOf(p.EffectPageURL) \o "/effect/create-image",
                               Join(body.cookies, "; "),
                               CreateFormFields(d.data), d.data.Text))
                /\ UNCHANGED err
    /\ UNCHANGED <<ctor, ctorArg, ctorErr, p, cookies, generatedFormValue,
                   result, lastOp>>
    /\ UNCHANGED <<clients, calls>>

\* createImage decodes the generated form value and, if that works, sends
\* the create-image POST
StartCreateImage ==
    /\ pc = "Submitted"
    /\ body' = NoBody
    /\ \E d \in {UnmarshalFormDataValues(generatedFormValue)} :
           IF ~d.ok
           THEN /\ pc' = "Failed"
                /\ err' = ErrSingleInput
                /\ UNCHANGED <<imageCreationData, requests>>
           ELSE /\ pc' = "CreatingImage"
                /\ imageCreationData' = d.data
                /\ requests' = Append(requests,
                       Request("create", "POST",
                               OriginOf(p.EffectPageURL) \o "/effect/create-image",
                               cookies, CreateFormFields(d.data), d.data.Text))
                /\ UNCHANGED err
    /\ UNCHANGED <<ctor, ctorArg, ctorErr, p, cookies, generatedFormValue,
                   result, lastOp>>
    /\ UNCHANGED <<clients, calls>>

\* a float formatted by cutting the fraction off
FormatFloatTruncated(num) ==
    (IF num.neg THEN "-" ELSE "") \o NatStr(num.int)

\* fmt.Sprintf("%.0f", v): the nearest integer, ties to even, sign kept
FormatFloat0(num) ==
    LET up == num.frac > 5 \/ (num.frac = 5 /\ num.int % 2 = 1)
    IN  (IF num.neg THEN "-" ELSE "") \o NatStr(num.int + (IF up THEN 1 ELSE 0))

\* the switch on imageResponse.SessionID: a JSON string decodes to a Go
\* string, every JSON number to a float64, the rest goes to %v
SessionIDString(j) ==
    CASE j.t = "string" -> j.v
      [] j.t = "number" -> FormatFloat0(j.v)
      [] j.t = "bool" -> IF j.v THEN "true" ELSE "false"
      [] OTHER -> "<nil>"

\* imageURL := imageCreationData.BuildServer, plus one of the two paths
ImageURLOf(buildServer, image, fullsizeImage) ==
    IF image # "" THEN buildServer \o image
    ELSE IF fullsizeImage # "" THEN buildServer \o fullsizeImage
    ELSE buildServer

\* json.Unmarshal(body, &imageResponse) for an ImageCreationResponse
UnmarshalImageResponse(j) ==
    IF j.t = "syntax error"
    THEN [ok |-> FALSE, Success |-> FALSE, Image |-> "", FullsizeImage |-> "",
          SessionID |-> JNull, err |-> ErrJSONSyntax]
    ELSE IF j.t = "null"
    THEN [ok |-> TRUE, Success |-> FALSE, Image |-> "", FullsizeImage |-> "",
          SessionID |-> JNull, err |-> ""]
    ELSE IF j.t # "object"
    THEN [ok |-> FALSE, Success |-> FALSE, Image |-> "", FullsizeImage |-> "",
          SessionID |-> JNull, err |-> ErrJSONType]
    ELSE LET su == BoolField(j.v, "success")
             im == StringField(j.v, "image")
             fu == StringField(j.v, "fullsize_image")
             ok == su.ok /\ im.ok /\ fu.ok
         IN  [ok |-> ok, Success |-> su.val, Image |-> im.val,
              FullsizeImage |-> fu.val,
              SessionID |-> IF "session_id" \in DOMAIN j.v
                            THEN j.v["session_id"] ELSE JNull,
              err |-> IF ok THEN "" ELSE ErrJSONType]

SessionIDValues ==
    {JString("abc"), JBool(TRUE), JNull,
     JNumber(FALSE, 0, 0), JNumber(FALSE, 7, 0), JNumber(TRUE, 0, 4),
     JNumber(TRUE, 7, 5)}
    \cup {JNumber(FALSE, n, f) : n \in {41, 42}, f \in {0, 4, 5, 6}}

ImagePaths == {"", "/2025/01/680_12345.jpg"}
FullsizePaths == {"", "/2025/01/680_full.jpg"}

ResponseObject(success, image, fullsize, sid, withSid) ==
    JObject([k \in {"success", "image", "fullsize_image"}
                   \cup (IF withSid THEN {"session_id"} ELSE {}) |->
        CASE k = "success" -> success
          [] k = "image" -> JString(image)
          [] k = "fullsize_image" -> JString(fullsize)
          [] OTHER -> sid])

\* the JSON values the create-image endpoint may answer with
CreateResponses ==
    {ResponseObject(JBool(s), i, f, JNumber(FALSE, 7, 0), TRUE) :
        s \in BOOLEAN, i \in ImagePaths, f \in FullsizePaths}
    \cup {ResponseObject(JBool(TRUE), "/x.jpg", "", sid, TRUE) : sid \in SessionIDValues}
    \cup {ResponseObject(JBool(TRUE), "/x.jpg", "", JNull, FALSE),
          ResponseObject(JString("yes"), "/x.jpg", "", JNull, FALSE),
          JNull, JArray(<<>>), JSyntaxError}

\* client.Do of the create-image POST fails, or its body cannot be read
CreateTransportError(e) ==
    /\ pc = "CreatingImage"
    /\ pc' = "Failed"
    /\ err' = IF e = ErrRead THEN e
              ELSE "Post \"" \o OriginOf(p.EffectPageURL)
                   \o "/effect/create-image\": " \o e
    /\ UNCHANGED <<ctor, ctorArg, ctorErr, p, cookies, generatedFormValue,
                   imageCreationData, body, requests, result, lastOp>>
    /\ UNCHANGED <<clients, calls>>

\* the create-image POST is answered with the JSON value j
CreateResponse(j) ==
    /\ pc = "CreatingImage"
    /\ body' = [kind |-> "json", json |-> j]
    /\ LET r == UnmarshalImageResponse(j)
       IN  IF ~r.ok
           THEN /\ pc' = "Failed"
                /\ err' = r.err
                /\ UNCHANGED result
           ELSE /\ pc' = "Done"
                /\ result' = [ok |-> TRUE,
                              Status |-> r.Success,
                              ImageURL |-> ImageURLOf(imageCreationData.BuildServer,
                                                      r.Image, r.FullsizeImage),
                              SessionID |-> SessionIDString(r.SessionID)]
                /\ UNCHANGED err
    /\ UNCHANGED <<ctor, ctorArg, ctorErr, p, cookies, generatedFormValue,
                   imageCreationData, requests, lastOp>>
    /\ UNCHANGED <<clients, calls>>

\* Execute has returned (result, err) to the caller: its locals are gone
Return ==
    /\ pc \in {"Done", "Failed"}
    /\ pc' = "Idle"
    /\ cookies' = ""
    /\ generatedFormValue' = ""
    /\ imageCreationData' = NoFormDataValues
    /\ body' = NoBody
    /\ requests' = <<>>
    /\ result' = NoResult
    /\ err' = ""
    /\ UNCHANGED <<ctor, ctorArg, ctorErr, p, lastOp>>
    /\ UNCHANGED <<clients, calls>>

-----------------------------------------------------------------------------

Next ==
    \/ \E u \in URLInputs : NewPhoto360(u)
    \/ \E name \in TextInputs : SetName(name)
    \/ \E names \in NameLists : SetNames(names)
    \/ ExecuteCall
    \/ \E e \in TransportErrors : FetchTransportError(e)
    \/ FetchParseError
    \/ \E cs \in CookieLists, pg \in Pages :
          \E rnd \in RandomOutcomes(pg.radioOptions) : FetchResponse(cs, pg, rnd)
    \/ StartSubmit
    \/ \E e \in TransportErrors \cup {ErrRead} : SubmitTransportError(e)
    \/ \E b \in SubmitBodies : SubmitResponse(b)
    \/ StartCreateImage
    \/ \E e \in TransportErrors \cup {ErrRead} : CreateTransportError(e)
    \/ \E j \in CreateResponses : CreateResponse(j)
    \/ Return

Spec == Init /\ [][Next]_vars

\* what http.Client reports when its Timeout runs out
ErrTimeout == "Client.Timeout exceeded while awaiting headers"

\* what keeps a running Execute call moving: a request that is not answered
\* runs into the 30 s Timeout of its http.Client, and the code between two
\* requests is straight-line
CallStep ==
    \/ FetchTransportError(ErrTimeout)
    \/ StartSubmit
    \/ SubmitTransportError(ErrTimeout)
    \/ StartCreateImage
    \/ CreateTransportError(ErrTimeout)

\* Spec with no running call left waiting for ever
LiveSpec == Init /\ [][Next]_vars /\ WF_vars(CallStep)

-----------------------------------------------------------------------------
(* Two goroutines calling Execute at the same time, on one client or on a  *)
(* client each. The calls are followed through the two stages that touch   *)
(* p.FormData: fetchInitialPage, which assigns it, and submitFormData,     *)
(* which ranges over it. The assignment stores a pointer to a map that is  *)
(* complete by then, so an unsynchronised reader gets either the map that  *)
(* was there before or the new one: the interleavings of the steps below.  *)

Goroutines == {1, 2}
ClientIds == {1, 2}

\* the Execute call of a goroutine that uses client c, before it starts;
\* formData is the local variable of fetchInitialPage
NoCall(c) ==
    [client |-> c, pc |-> "Idle", cookies |-> "", formData |-> EmptyFormData,
     requests |-> <<>>, err |-> ""]

\* both goroutines hold a client made by NewPhoto360(""): the same one, or
\* one each
ConcInit ==
    /\ OneCaller
    /\ clients = [c \in ClientIds |-> NewPhoto360Result("").client]
    /\ \E c \in ClientIds :
          calls = [g \in Goroutines |-> NoCall(IF g = 1 THEN 1 ELSE c)]

seqVars == <<ctor, ctorArg, ctorErr, p, pc, cookies, generatedFormValue,
             imageCreationData, body, requests, result, err, lastOp>>

\* goroutine g calls Execute: fetchInitialPage sends the GET
GoExecute(g) ==
    /\ calls[g].pc = "Idle"
    /\ calls' = [calls EXCEPT ![g].pc = "FetchingPage",
                              ![g].requests =
                                  <<Request("fetch", "GET",
                                            clients[calls[g].client].EffectPageURL,
                                            "", EmptyFormData, <<>>)>>]
    /\ UNCHANGED <<clients, seqVars>>

\* the GET of goroutine g fails
GoFetchTransportError(g, e) ==
    /\ calls[g].pc = "FetchingPage"
    /\ calls' = [calls EXCEPT ![g].pc = "Failed",
                              ![g].err = "Get \""
                                  \o clients[calls[g].client].EffectPageURL
                                  \o "\": " \o e]
    /\ UNCHANGED <<clients, seqVars>>

\* fetchInitialPage of goroutine g storing the new fields in every client
GoFetchResponseAllClients(g, cs, pg, rnd) ==
    /\ calls[g].pc = "FetchingPage"
    /\ LET fd == prepareFormData(pg.buildServer, pg.buildServerId, pg.token,
                                 pg.submitValue, pg.radioOptions, rnd)
       IN  IF ~fd.ok
           THEN /\ calls' = [calls EXCEPT ![g].pc = "Failed",
                                          ![g].err = "failed to prepare form data: "
                                                     \o fd.err]
                /\ UNCHANGED clients
           ELSE /\ calls' = [calls EXCEPT ![g].pc = "Fetched",
                                          ![g].cookies = Join(cs, "; "),
                                          ![g].formData = fd.formData]
                /\ clients' = [c \in ClientIds |->
                                  [clients[c] EXCEPT !.FormData = fd.formData]]
    /\ UNCHANGED seqVars

\* the GET of goroutine g is answered with cookies cs and page pg:
\* fetchInitialPage assigns the FormData of the goroutine's client
GoFetchResponse(g, cs, pg, rnd) ==
    /\ calls[g].pc = "FetchingPage"
    /\ LET fd == prepareFormData(pg.buildServer, pg.buildServerId, pg.token,
                                 pg.submitValue, pg.radioOptions, rnd)
       IN  IF ~fd.ok
           THEN /\ calls' = [calls EXCEPT ![g].pc = "Failed",
                                          ![g].err = "failed to prepare form data: "
                                                     \o fd.err]
                /\ UNCHANGED clients
           ELSE /\ calls' = [calls EXCEPT ![g].pc = "Fetched",
                                          ![g].cookies = Join(cs, "; "),
                                          ![g].formData = fd.formData]
                /\ clients' = [clients EXCEPT ![calls[g].client].FormData = fd.formData]
    /\ UNCHANGED seqVars

\* submitFormData of goroutine g ranges over the FormData its client has
\* now and sends the POST with the cookie string it was passed
GoStartSubmit(g) ==
    /\ calls[g].pc = "Fetched"
    /\ LET cl == clients[calls[g].client]
       IN  calls' = [calls EXCEPT ![g].pc = "Submitting",
                                  ![g].requests =
                                      Append(@, Request("submit", "POST",
                                                        cl.EffectPageURL,
                                                        calls[g].cookies,
                                                        MultipartFields(cl.FormData),
                                                        cl.InputText))]
    /\ UNCHANGED <<clients, seqVars>>

ConcNext ==
    \/ \E g \in Goroutines : GoExecute(g)
    \/ \E g \in Goroutines, e \in TransportErrors : GoFetchTransportError(g, e)
    \/ \E g \in Goroutines, cs \in CookieLists, pg \in Pages :
          \E rnd \in RandomOutcomes(pg.radioOptions) : GoFetchResponse(g, cs, pg, rnd)
    \/ \E g \in Goroutines : GoStartSubmit(g)

ConcSpec == ConcInit /\ [][ConcNext]_vars

-----------------------------------------------------------------------------
(* Properties.                                                             *)

RequestKinds == [i \in 1..Len(requests) |-> requests[i].kind]

StageOrder == <<"fetch", "submit", "create">>

\* the requests a run has issued when it is at each position
C1_Inv ==
    /\ Len(requests) <= 3
    /\ RequestKinds = SubSeq(StageOrder, 1, Len(requests))
    /\ pc = "Idle" => requests = <<>>
    /\ pc \in {"FetchingPage", "Fetched"} => Len(requests) = 1
    /\ pc \in {"Submitting", "Submitted"} => Len(requests) = 2
    /\ pc \in {"CreatingImage", "Done"} => Len(requests) = 3
    /\ err # "" <=> pc = "Failed"
    /\ result.ok <=> pc = "Done"

\* one step of a run
C1_Step ==
    /\ pc' # pc =>
          <<pc, pc'>> \in {<<"Idle", "FetchingPage">>, <<"FetchingPage", "Fetched">>,
                           <<"Fetched", "Submitting">>, <<"Submitting", "Submitted">>,
                           <<"Submitted", "CreatingImage">>, <<"CreatingImage", "Done">>,
                           <<"Idle", "Failed">>, <<"FetchingPage", "Failed">>,
                           <<"Submitting", "Failed">>, <<"Submitted", "Failed">>,
                           <<"CreatingImage", "Failed">>,
                           <<"Done", "Idle">>, <<"Failed", "Idle">>}
    /\ requests' # requests =>
          \/ pc' = "Idle" /\ requests' = <<>>
          \/ /\ err = "" /\ err' = ""
             /\ Len(requests') = Len(requests) + 1
             /\ SubSeq(requests', 1, Len(requests)) = requests
    /\ pc' = "Failed" => requests' = requests /\ ~result'.ok

\* C1: within one Execute call the requests are issued in the order fetch
\* page, submit form, create image, each at most once and only while no stage
\* has failed; a failing stage moves the run to Failed, after which no request
\* is sent and the caller gets the error and no result.
C1_StagesInOrder == []C1_Inv /\ [][C1_Step]_vars

C1_Witness == pc = "Failed" /\ err = ErrNoFormValue /\ Len(requests) = 2

HasMarker(u) ==
    \E i \in 1..Len(u) : \E j \in i..Len(u) : SubSeq(u, i, j) = "photo360.com"

\* C2: NewPhoto360 succeeds for every URL that contains "photo360.com", fails
\* with the invalid-URL error and no client for every non-empty URL that lacks
\* it, and for "" succeeds with the default effect page URL.
C2_CreateValidatesURL ==
    ctor # "uncalled" =>
        /\ HasMarker(ctorArg) =>
              ctor = "ok" /\ ctorErr = "" /\ p.EffectPageURL = ctorArg
        /\ (ctorArg # "" /\ ~HasMarker(ctorArg)) =>
              ctor = "failed" /\ ctorErr = "invalid URL: Must be a photo360.com URL"
              /\ p = NilClient
        /\ ctorArg = "" =>
              /\ ctor = "ok" /\ ctorErr = ""
              /\ p.EffectPageURL =
                   "https://en.ephoto360.com/handwritten-text-on-foggy-glass-online-680.html"

C2_Witness == ctor = "ok" /\ ctorArg = "" /\ pc = "Done"

\* the run has got a generated form value that json.Unmarshal rejects
DecodeFailed ==
    /\ generatedFormValue # ""
    /\ ~UnmarshalFormDataValues(generatedFormValue).ok

\* C3: when the generated form value does not decode, createImage fails with
\* the single-input error, not with the decoder's error, and sends no
\* create-image request.
C3_UndecodableIsSingleInput ==
    DecodeFailed =>
        /\ pc \in {"Submitted", "Failed"}
        /\ \A i \in 1..Len(requests) : requests[i].kind # "create"
        /\ pc = "Failed" =>
              /\ err = ErrSingleInput
              /\ err # UnmarshalFormDataValues(generatedFormValue).err

C3_Witness == pc = "Failed" /\ generatedFormValue = DocGarbage /\ err = ErrSingleInput

\* C4: when Execute fails because the effect requires a single input field,
\* the error message contains the text the documented caller pattern looks
\* for, "Please Try Using A Url That Requires 1 Input Field".
C4_ErrorMatchesDocumentedText ==
    (pc = "Failed" /\ DecodeFailed) =>
        Contains(err, "Please Try Using A Url That Requires 1 Input Field")

\* the create-image response is a JSON object that decoded
ResponseDecoded == pc = "Done" /\ body.kind = "json" /\ body.json.t = "object"

ResponseImage == body.json.v["image"].v
ResponseFullsize == body.json.v["fullsize_image"].v

\* C5: the image URL is the build server of the decoded generated form value
\* followed by one image path of the response, the full-size path when the
\* response carries both a default and a full-size path.
C5_FullsizePreferred ==
    ResponseDecoded =>
        result.ImageURL = imageCreationData.BuildServer
            \o (IF ResponseFullsize # "" THEN ResponseFullsize ELSE ResponseImage)

\* the first non-empty value among the four places, in the documented order
FirstNonEmpty(b) ==
    LET vals == <<TrimSpace(b.fvText), TrimSpace(b.fviText),
                  IF b.fvAttr.exists THEN b.fvAttr.val ELSE "",
                  IF b.fviAttr.exists THEN b.fviAttr.val ELSE "">>
        hits == {i \in 1..4 : vals[i] # ""}
    IN  IF hits = {} THEN ""
        ELSE vals[CHOOSE i \in hits : \A j \in hits : i <= j]

SubmitAnswered == body.kind = "html" /\ pc \in {"Submitted", "Failed"}

\* C6: the generated form value is the first non-empty value among the text
\* of #form_value, the text of #form_value_input, the value attribute of
\* #form_value and the value attribute of #form_value_input, each place being
\* tried whenever all earlier ones are empty or absent.
C6_FirstNonEmptyLocation ==
    SubmitAnswered =>
        /\ pc = "Submitted" => generatedFormValue = FirstNonEmpty(body)
        /\ pc = "Failed" => FirstNonEmpty(body) = ""

\* C7: the submit stage fails with "no generated form value found", and no
\* create-image request is sent, if none of the four places holds a non-empty
\* value; it does not fail with that error if one of them does.
C7_NoValueErrorIffNoneFound ==
    SubmitAnswered =>
        /\ FirstNonEmpty(body) = "" =>
              /\ pc = "Failed" /\ err = "no generated form value found"
              /\ Len(requests) = 2
        /\ FirstNonEmpty(body) # "" =>
              ~(pc = "Failed" /\ err = "no generated form value found")

SessionIDDecoded == ResponseDecoded /\ "session_id" \in DOMAIN body.json.v

ResponseSessionID == body.json.v["session_id"]

Sign(num) == IF num.neg THEN "-" ELSE ""

\* the string form of a JSON value that is not rounded: a number with a
\* fraction keeps it
NaturalForm(j) ==
    CASE j.t = "string" -> j.v
      [] j.t = "number" ->
            IF j.v.frac = 0 THEN Sign(j.v) \o NatStr(j.v.int)
            ELSE Sign(j.v) \o NatStr(j.v.int) \o "." \o NatStr(j.v.frac)
      [] j.t = "bool" -> IF j.v THEN "true" ELSE "false"
      [] OTHER -> "<nil>"

\* C8 as claimed: the session identifier is the session_id of the response as
\* a string: an integer as its digits, an integral float without a decimal
\* point, a string unchanged, and anything else, a non-integral number
\* included, in its natural string form, not rounded.
C8_NaturalStringForm ==
    SessionIDDecoded => result.SessionID = NaturalForm(ResponseSessionID)

\* the integer nearest to a number, the even one of the two when it lies
\* half way between them
NearestInteger(num) ==
    LET tenths == 10 * num.int + num.frac
        below  == 10 * num.int
        above  == 10 * (num.int + 1)
    IN  IF tenths - below < above - tenths THEN num.int
        ELSE IF tenths - below > above - tenths THEN num.int + 1
        ELSE IF num.int % 2 = 0 THEN num.int ELSE num.int + 1

\* C8 as amended: a number renders as the digits of the nearest integer (ties
\* to even) with its sign and no decimal point, so 42 and 42.0 give "42" and a
\* non-integral number is rounded; a string renders unchanged; a boolean and
\* null render in their natural string form.
C8_NumbersRounded ==
    SessionIDDecoded =>
        result.SessionID =
            IF ResponseSessionID.t = "number"
            THEN Sign(ResponseSessionID.v) \o NatStr(NearestInteger(ResponseSessionID.v))
            ELSE NaturalForm(ResponseSessionID)

C8_Witness ==
    /\ SessionIDDecoded
    /\ ResponseSessionID.t = "number"
    /\ ResponseSessionID.v.frac = 5
    /\ result.SessionID = "42"

SetNamesCalledWithNone == lastOp.op = "SetNames" /\ lastOp.names = <<>>

\* C9 as claimed: the text-input list of a client is never empty, whatever
\* setters and Execute calls were made, SetNames of the empty list included.
C9_TextsNeverEmpty == ctor = "ok" => Len(p.InputText) > 0

\* C9 as amended: the text-input list of a client is non-empty unless the
\* setter called last was SetNames with the empty list.
C9_TextsEmptyOnlyAfterEmptySetNames ==
    (ctor = "ok" /\ ~SetNamesCalledWithNone) => Len(p.InputText) > 0

C9_Witness ==
    /\ ctor = "ok" /\ pc = "Done"
    /\ lastOp.op = "SetNames" /\ Len(lastOp.names) = 2
    /\ Len(p.InputText) = 2

\* C10: after SetName(X) the text-input list is exactly <<X>>, whatever it
\* held before, and stays so until the next setter call.
C10_SetNameYieldsSingleton ==
    lastOp.op = "SetName" => p.InputText = <<lastOp.name>>

C10_Witness == lastOp.op = "SetName" /\ pc = "Done" /\ Len(p.InputText) = 1

\* C11: after SetNames(s) the text-input list is s, element for element, in
\* the same order and of the same length, whatever list was there before,
\* and stays so until the next setter call.
C11_SetNamesReplacesList ==
    lastOp.op = "SetNames" =>
        /\ Len(p.InputText) = Len(lastOp.names)
        /\ \A i \in 1..Len(lastOp.names) : p.InputText[i] = lastOp.names[i]

C11_Witness ==
    /\ lastOp.op = "SetNames" /\ lastOp.names = <<"Y", "X">>
    /\ p.InputText = <<"Y", "X">> /\ pc = "Done"

\* one step of a run, as far as the Cookie header goes
C12_Step ==
    /\ (pc = "Fetched" /\ pc' = "Submitting") =>
          /\ body.kind = "page"
          /\ requests'[2].cookie = Join(body.cookies, "; ")
    /\ (pc = "Submitted" /\ pc' = "CreatingImage") =>
          /\ body.kind = "html"
          /\ requests'[3].cookie = requests[2].cookie
          /\ requests'[3].cookie # Join(body.cookies, "; ")
    /\ (Len(requests) >= 2 /\ Len(requests') >= 2) => requests'[2] = requests[2]

\* C12: within one Execute call the Cookie header of the submit POST and of
\* the create-image POST is the cookie string joined from the cookies of that
\* call's GET response; it is not taken from the submit response or from
\* anywhere else.
C12_CookiesOfOwnFetch == [][C12_Step]_vars

C12_Witness ==
    /\ pc = "Done"
    /\ requests[2].cookie = "sid=2; t=9"
    /\ requests[3].cookie = "sid=2; t=9"

\* the submission fields are those assembled from the page in body
FieldsAssembled == pc \in {"Fetched", "Submitting"} /\ body.kind = "page"

\* an optional sign followed by one or more decimal digits
ParsesAsInteger(s) ==
    \E k \in 0..1 :
        /\ Len(s) > k
        /\ k = 1 => SubSeq(s, 1, 1) \in {"+", "-"}
        /\ \A i \in (k + 1)..Len(s) :
               SubSeq(s, i, i) \in {"0", "1", "2", "3", "4", "5", "6", "7", "8", "9"}

\* C13: the assembled submission fields always hold the submit marker, the
\* token and the build-server string of the page; they hold the numeric
\* build-server id exactly when the id text of the page parses as an integer;
\* they hold the option field exactly when the page has at least one option,
\* and its value is then the option at some index in [0, optionCount).
C13_AssembledFields ==
    FieldsAssembled =>
        LET pg == body.page
            fd == p.FormData
            n  == Len(pg.radioOptions)
        IN  /\ {"submit", "token", "build_server"} \subseteq DOMAIN fd
            /\ fd["submit"] = pg.submitValue
            /\ fd["token"] = pg.token
            /\ fd["build_server"] = pg.buildServer
            /\ "build_server_id" \in DOMAIN fd <=> ParsesAsInteger(pg.buildServerId)
            /\ "radio0[radio]" \in DOMAIN fd <=> n >= 1
            /\ n >= 1 => \E i \in 0..(n - 1) : fd["radio0[radio]"] = pg.radioOptions[i + 1]
            /\ DOMAIN fd \subseteq {"submit", "token", "build_server",
                                    "build_server_id", "radio0[radio]"}

C13_Witness ==
    /\ pc = "Fetched" /\ body.kind = "page"
    /\ body.page.radioOptions = <<"r1", "r2">>
    /\ p.FormData["radio0[radio]"] = "r2"
    /\ p.FormData["build_server_id"] = 7

\* a page whose id text is no integer and that has no options
C13_WitnessMissing ==
    /\ pc = "Fetched" /\ body.kind = "page"
    /\ body.page.buildServerId = "7x"
    /\ DOMAIN p.FormData = {"submit", "token", "build_server"}

\* the submit POST of the running call has been sent
SubmitSent == Len(requests) >= 2

\* how often the body of the submit POST has a part named k
PartsNamed(k) ==
    LET parts == requests[2].fields
        named == {e \in BagToSet(parts) : e[1] = k}
    IN  IF named = {} THEN 0
        ELSE IF Cardinality(named) > 1 THEN 2
        ELSE CopiesIn(CHOOSE e \in named : TRUE, parts)

\* C14: the body of the submit POST has every assembled submission field
\* exactly once, with its value, and nothing else besides one text[] part per
\* element of the text-input list, part i carrying text i.
C14_SubmitBody ==
    SubmitSent =>
        LET r  == requests[2]
            fd == p.FormData
        IN  /\ \A k \in DOMAIN fd : PartsNamed(k) = 1
            /\ BagCardinality(r.fields) = Cardinality(DOMAIN fd)
            /\ \A k \in DOMAIN fd \ {"build_server_id"} : BagIn(<<k, fd[k]>>, r.fields)
            /\ "build_server_id" \in DOMAIN fd =>
                   \E e \in BagToSet(r.fields) :
                       e[1] = "build_server_id" /\ Atoi(e[2]).n = fd["build_server_id"]
            /\ Len(r.texts) = Len(p.InputText)
            /\ \A i \in 1..Len(p.InputText) : r.texts[i] = p.InputText[i]

C14_Witness ==
    /\ pc = "Submitting"
    /\ requests[2].texts = <<"Y", "X">>
    /\ BagCardinality(requests[2].fields) = 5
    /\ BagIn(<<"radio0[radio]", "r2">>, requests[2].fields)
    /\ BagIn(<<"build_server_id", "7">>, requests[2].fields)

\* a step taken by Execute, from the call to the return
ExecuteStep == pc # "Idle" \/ pc' # "Idle"

\* the step on which the fetch stage completes successfully
FetchSucceeds == pc = "FetchingPage" /\ pc' = "Fetched"

\* one step of the client, as far as the client's own state goes
C17_Step ==
    /\ ctor = "ok" =>
          /\ p'.EffectPageURL = p.EffectPageURL
          /\ Contains(p'.EffectPageURL, DomainMarker)
    /\ ExecuteStep => p'.InputText = p.InputText
    /\ (ExecuteStep /\ ~FetchSucceeds) => p' = p
    /\ (pc = "FetchingPage" /\ pc' = "Failed") => p'.FormData = p.FormData
    /\ FetchSucceeds =>
          LET pg == body'.page
              fd == p'.FormData
          IN  /\ fd["submit"] = pg.submitValue
              /\ fd["token"] = pg.token
              /\ fd["build_server"] = pg.buildServer
              /\ "build_server_id" \in DOMAIN fd => ParsesAsInteger(pg.buildServerId)
              /\ "radio0[radio]" \in DOMAIN fd =>
                     \E i \in 1..Len(pg.radioOptions) : fd["radio0[radio]"] = pg.radioOptions[i]

\* C17: Execute changes nothing of the client but the submission fields, and
\* those only on the step that completes the fetch stage: the effect page URL
\* stays what the constructor stored (and so keeps the domain marker) under
\* every setter and every Execute step, Execute leaves the text-input list
\* alone, a failing fetch stage leaves the submission fields as they were, and
\* a successful one leaves only fields that come from the page just fetched.
C17_FrameOfExecute == [][C17_Step]_vars

\* the fetch stage failed for want of a random number, and the submission
\* fields are still those of an earlier call, whose page had no options
C17_Witness ==
    /\ pc = "Failed" /\ body.kind = "page"
    /\ Len(body.page.radioOptions) > 0
    /\ DOMAIN p.FormData = {"submit", "token", "build_server"}
    /\ HasMarker(p.EffectPageURL)

\* how far a call has come
Rank(position) ==
    CASE position = "Idle" -> 0
      [] position = "FetchingPage" -> 1
      [] position = "Fetched" -> 2
      [] position = "Submitting" -> 3
      [] position = "Submitted" -> 4
      [] position = "CreatingImage" -> 5
      [] OTHER -> 6

Ended == pc \in {"Done", "Failed"}

\* a call only moves forward, and what it has sent stays sent: no request is
\* issued a second time and an ended call does nothing but return
C16_Step ==
    /\ pc' # pc => \/ Rank(pc') > Rank(pc)
                   \/ Ended /\ pc' = "Idle"
    /\ Ended => requests' = requests \/ pc' = "Idle"
    /\ (pc # "Idle" /\ pc' # "Idle") =>
          /\ Len(requests') >= Len(requests)
          /\ \A i \in 1..Len(requests) : requests'[i] = requests[i]
          /\ \A i, j \in 1..Len(requests') : i # j => requests'[i].kind # requests'[j].kind

\* C16: every Execute call ends in Done or Failed, given that each of its
\* requests is answered or times out; it sends at most three requests, never
\* goes back to an earlier stage and never sends a request again, whatever
\* the failure.
C16_CallEnds ==
    /\ (pc # "Idle") ~> Ended
    /\ [](Len(requests) <= 3)
    /\ [][C16_Step]_vars

C16_Witness ==
    /\ pc = "Failed" /\ Len(requests) = 3
    /\ err = "Post \"https://en.ephoto360.com/effect/create-image\": connection refused"

\* goroutine g has sent its submit POST
Sent(g) == Len(calls[g].requests) >= 2

\* the submit POST of goroutine g carries the fields g's own fetch harvested
OwnFields(g) == calls[g].requests[2].fields = MultipartFields(calls[g].formData)

\* the submit POST of goroutine g carries g's own cookie string
OwnCookie(g) == calls[g].requests[2].cookie = calls[g].cookies

\* the submit POST of g has its own cookie string with the fields harvested
\* by the fetch of h, which are not those of its own fetch
Mixed(g, h) ==
    /\ g # h
    /\ Sent(g) /\ OwnCookie(g) /\ ~OwnFields(g)
    /\ calls[h].pc \in {"Fetched", "Submitting"}
    /\ calls[g].requests[2].fields = MultipartFields(calls[h].formData)

\* C15: when the two concurrent calls use a client each, every submit POST
\* carries the fields and the cookie string of its own call's fetch; fields
\* of the other call are sent only when the two calls share a client, and
\* the cookie string is the call's own in either case.
C15_MixingOnlyOnSharedClient ==
    \A g \in Goroutines :
        Sent(g) =>
            /\ OwnCookie(g)
            /\ \A h \in Goroutines \ {g} :
                   \/ calls[g].client = calls[h].client
                   \/ OwnFields(g) /\ ~Mixed(g, h)

\* on a shared client, the first call has sent its own cookie with the
\* option the second call harvested
C15_Witness ==
    /\ calls[1].client = calls[2].client
    /\ Mixed(1, 2)
    /\ calls[1].requests[2].cookie = "sid=1"
    /\ calls[2].cookies = "sid=2; t=9"
    /\ "radio0[radio]" \in DOMAIN calls[1].formData
    /\ calls[1].formData["radio0[radio]"] = "r1"
    /\ BagIn(<<"radio0[radio]", "r2">>, calls[1].requests[2].fields)

=============================================================================
